---- MODULE Spec2Model ----
(***************************************************************************)
(* Integrity-verified read access to a content-addressable store           *)
(* (lib/content/read.js): read, read.sync, read.stream, copy, copy.sync,   *)
(* hasContent, hasContent.sync and the two digest resolvers withContentSri *)
(* and withContentSriSync they are built on.                               *)
(***************************************************************************)
EXTENDS Integers, Sequences, FiniteSets, TLC

\* Largest number of digest entries written in one integrity descriptor.
MaxEntries == 2

(***************************************************************************)
(* Collaborators: ssri (descriptor parsing, algorithm choice, digest       *)
(* check), content/path (digest entry -> file path), fs.                   *)
(***************************************************************************)

\* File contents (byte strings) the store and the copy destination can hold.
Contents == {<<>>, <<0>>, <<1>>}

RECURSIVE SumBytes(_)
SumBytes(data) == IF data = <<>> THEN 0 ELSE Head(data) + SumBytes(Tail(data))

\* The digest ssri computes for `data` under `algorithm` (a small stand-in
\* for the cryptographic hash: deterministic, algorithm dependent, lossy).
HashOf(algorithm, data) ==
  IF algorithm = "sha512"
    THEN (Len(data) + SumBytes(data)) % 2
    ELSE (1 + SumBytes(data)) % 2

\* Digest entries (ssri Hash objects) a descriptor can be written from.
Entries ==
  { [algorithm |-> "sha512", digest |-> 0],
    [algorithm |-> "sha512", digest |-> 1],
    [algorithm |-> "sha1", digest |-> 0] }

NoEntry == [algorithm |-> "", digest |-> -1]

\* An integrity descriptor as written: digest entries in textual order.
\* The empty one stands for a string ssri finds no hash in.
RECURSIVE SeqsUpTo(_, _)
SeqsUpTo(S, n) ==
  IF n = 0 THEN {<<>>}
  ELSE LET shorter == SeqsUpTo(S, n - 1)
       IN shorter \cup {Append(s, e) : s \in {q \in shorter : Len(q) = n - 1}, e \in S}

Descriptors == SeqsUpTo(Entries, MaxEntries)

\* hasContent's `integrity` argument may also be missing (null, undefined, '').
NoIntegrity == <<NoEntry>>

\* opts.size: a number, or not supplied.
NoSize == -1
SizeOpts == {NoSize} \cup {Len(c) : c \in Contents}

Platforms == {"win32", "linux"}

\* contentPath(cache, entry): one path per (algorithm, digest); pure.
NoPath == <<>>
contentPath(entry) == <<entry.algorithm, entry.digest>>

Paths == {contentPath(e) : e \in Entries}

\* What the filesystem holds at a content path: nothing, a file, or an
\* entry whose access fails with an I/O error other than ENOENT.
Missing == [k |-> "missing", data |-> <<>>, code |-> ""]
File(d) == [k |-> "file", data |-> d, code |-> ""]
Fault(c) == [k |-> "fault", data |-> <<>>, code |-> c]
FileStates == {Missing} \cup {File(d) : d \in Contents} \cup {Fault(c) : c \in {"EPERM", "EIO"}}

(***************************************************************************)
(* JavaScript values that flow through the resolvers.                      *)
(***************************************************************************)
Blank ==
  [t |-> "undefined", code |-> "", msg |-> "", path |-> NoPath, sri |-> NoEntry,
   desc |-> <<>>, expected |-> -1, found |-> -1, data |-> <<>>, size |-> -1]

Undefined == Blank
False == [Blank EXCEPT !.t = "false"]
Buffer(d) == [Blank EXCEPT !.t = "buffer", !.data = d]
\* { size: stat.size, sri, stat } of hasContent
StatInfo(sz, sri) == [Blank EXCEPT !.t = "object", !.size = sz, !.sri = sri]
\* { cpath, sri, stat } of readStream
StreamInfo(cpath, sri, sz) ==
  [Blank EXCEPT !.t = "object", !.path = cpath, !.sri = sri, !.size = sz]

\* An Error raised by an fs primitive on `path` (ENOENT, EPERM, EIO).
FsError(code, path) ==
  [Blank EXCEPT !.t = "error", !.code = code, !.msg = "fs", !.path = path]
\* The Error ssri's pickAlgorithm throws for a descriptor with no hash.
ParseError(integrity) ==
  [Blank EXCEPT !.t = "error", !.msg = "No algorithms available for", !.desc = integrity]
\* The TypeError of reading a property of undefined.
TypeError ==
  [Blank EXCEPT !.t = "error", !.msg = "Cannot read property 'code' of undefined"]

sizeError(expected, found) ==
  [Blank EXCEPT !.t = "error", !.code = "EBADSIZE", !.msg = "Bad data size",
                !.expected = expected, !.found = found]

integrityError(sri, path) ==
  [Blank EXCEPT !.t = "error", !.code = "EINTEGRITY",
                !.msg = "Integrity verification failed", !.sri = sri, !.path = path]

\* The error withContentSri builds in place of a candidate's ENOENT.
NoMatchError(integrity) ==
  [Blank EXCEPT !.t = "error", !.code = "ENOENT",
                !.msg = "No matching content found for", !.desc = integrity]

IsError(v) == v.t = "error"           \* r instanceof Error
Truthy(v) == v.t \notin {"undefined", "false"}

\* How a call, a callback or a promise ended.
Pending == [s |-> "pending", v |-> Undefined]
Ok(v) == [s |-> "ok", v |-> v]
Fail(e) == [s |-> "fail", v |-> e]

Null == [Blank EXCEPT !.t = "null"]

Ops == {"read", "readSync", "readStream", "copy", "copySync", "hasContent", "hasContentSync"}
AsyncOps == {"read", "readStream", "copy", "hasContent"}
SyncOps == Ops \ AsyncOps

VARIABLES
  fs,         \* content path -> what the filesystem holds there
  dest,       \* the file at copy's destination path
  pc,         \* where the current call is
  op,         \* the operation called
  integrity,  \* its integrity argument
  size,       \* opts.size
  platform,   \* process.platform, as the existence checks find it
  invoked,    \* paths the access function was invoked on, in order
  cand,       \* per candidate: the settlement of its promise
  promise,    \* the promise withContentSri returned
  pipeline,   \* readStream: the promise of pipe(...)
  result,     \* what the caller of the operation got
  stream      \* the PassThrough stream of readStream

vars == <<fs, dest, pc, op, integrity, size, platform, invoked, cand, promise, pipeline, result, stream>>

(***************************************************************************)
(* ssri: parse, pickAlgorithm, checkData                                   *)
(***************************************************************************)
HasAlgorithm(sri, a) == \E i \in 1..Len(sri) : sri[i].algorithm = a

\* sri.pickAlgorithm(): the strongest algorithm present ("" when it throws
\* because the descriptor holds no hash).
pickAlgorithm(sri) ==
  IF HasAlgorithm(sri, "sha512") THEN "sha512"
  ELSE IF HasAlgorithm(sri, "sha1") THEN "sha1"
  ELSE ""

\* Variant: the entries of every algorithm are candidates.
DigestsOf_EveryAlgorithm(sri, algo) == sri

\* sri[algo]: the entries of one algorithm, in descriptor order.
DigestsOf(sri, algo) == SelectSeq(sri, LAMBDA e : e.algorithm = algo)

\* ssri.checkData(data, sri) for a single digest entry.
checkData(data, sri) == HashOf(sri.algorithm, data) = sri.digest

(***************************************************************************)
(* fs primitives                                                           *)
(***************************************************************************)
\* readFile / readFileSync
readFile(cpath) ==
  LET f == fs[cpath]
  IN CASE f.k = "missing" -> Fail(FsError("ENOENT", cpath))
       [] f.k = "fault" -> Fail(FsError(f.code, cpath))
       [] OTHER -> Ok(Buffer(f.data))

\* lstat / lstatSync: the stat's size
lstat(cpath) ==
  LET f == fs[cpath]
  IN CASE f.k = "missing" -> Fail(FsError("ENOENT", cpath))
       [] f.k = "fault" -> Fail(FsError(f.code, cpath))
       [] OTHER -> Ok([Blank EXCEPT !.t = "object", !.size = Len(f.data)])

\* copyFile / copyFileSync: settles with no value
copyFile(cpath) ==
  LET f == fs[cpath]
  IN CASE f.k = "missing" -> Fail(FsError("ENOENT", cpath))
       [] f.k = "fault" -> Fail(FsError(f.code, cpath))
       [] OTHER -> Ok(Undefined)

(***************************************************************************)
(* The access functions the operations hand to the resolvers.              *)
(***************************************************************************)
\* Variant: the bytes are returned without the digest check.
readFn_SkipsCheck(cpath, sri, sz) ==
  LET r == readFile(cpath)
  IN IF r.s = "fail" THEN r
     ELSE IF sz # NoSize /\ sz # Len(r.v.data)
       THEN Fail(sizeError(sz, Len(r.v.data)))
     ELSE Ok(r.v)

\* Variant: the digest check runs before the size check.
readFn_IntegrityFirst(cpath, sri, sz) ==
  LET r == readFile(cpath)
  IN IF r.s = "fail" THEN r
     ELSE IF ~checkData(r.v.data, sri) THEN Fail(integrityError(sri, cpath))
     ELSE IF sz # NoSize /\ sz # Len(r.v.data)
       THEN Fail(sizeError(sz, Len(r.v.data)))
     ELSE Ok(r.v)

\* read's access function: readFile, size check, integrity check
readFn(cpath, sri, sz) ==
  LET r == readFile(cpath)
  IN IF r.s = "fail" THEN r
     ELSE IF sz # NoSize /\ sz # Len(r.v.data)
       THEN Fail(sizeError(sz, Len(r.v.data)))
     ELSE IF checkData(r.v.data, sri) THEN Ok(r.v)
     ELSE Fail(integrityError(sri, cpath))

\* Variant: readSync without the size check.
readSyncFn_NoSizeCheck(cpath, sri, sz) ==
  LET r == readFile(cpath)
  IN IF r.s = "fail" THEN r
     ELSE IF checkData(r.v.data, sri) THEN Ok(r.v)
     ELSE Fail(integrityError(sri, cpath))

\* readSync's access function: fs.readFileSync, size check, integrity check
readSyncFn(cpath, sri, sz) ==
  LET r == readFile(cpath)
  IN IF r.s = "fail" THEN r
     ELSE IF sz # NoSize /\ sz # Len(r.v.data)
       THEN Fail(sizeError(sz, Len(r.v.data)))
     ELSE IF checkData(r.v.data, sri) THEN Ok(r.v)
     ELSE Fail(integrityError(sri, cpath))

readStreamFn(cpath, sri) ==
  LET r == lstat(cpath)
  IN IF r.s = "fail" THEN r ELSE Ok(StreamInfo(cpath, sri, r.v.size))

copyFn(cpath, sri) == copyFile(cpath)

hasContentFn(cpath, sri) ==
  LET r == lstat(cpath)
  IN IF r.s = "fail" THEN r ELSE Ok(StatInfo(r.v.size, sri))

hasContentSyncFn(cpath, sri, plat) ==
  LET r == lstat(cpath)
  IN IF r.s = "ok" THEN Ok(StatInfo(r.v.size, sri))
     ELSE IF r.v.code = "ENOENT" THEN Ok(False)
     ELSE IF r.v.code = "EPERM"
       THEN (IF plat # "win32" THEN r ELSE Ok(False))
     ELSE Ok(Undefined)

\* fn(cpath, sri) of operation o
Access(o, cpath, sri, sz, plat) ==
  CASE o = "read" -> readFn(cpath, sri, sz)
    [] o = "readSync" -> readSyncFn(cpath, sri, sz)
    [] o = "readStream" -> readStreamFn(cpath, sri)
    [] o \in {"copy", "copySync"} -> copyFn(cpath, sri)
    [] o = "hasContent" -> hasContentFn(cpath, sri)
    [] o = "hasContentSync" -> hasContentSyncFn(cpath, sri, plat)

(***************************************************************************)
(* withContentSriSync: the blocking resolver.  It gives the outcome (a     *)
(* return or a throw) and the paths fn was invoked on, in order.           *)
(***************************************************************************)
RECURSIVE withContentSriSync(_, _, _, _)
RECURSIVE SyncLoop(_, _, _, _, _, _, _)

\* Variant: the first error caught is the one kept.
SyncLoop_KeepsFirstError(o, digests, i, lastErr, calls, sz, plat) ==
  IF i > Len(digests)
    THEN [r |-> IF lastErr # Null THEN Fail(lastErr) ELSE Ok(Undefined), calls |-> calls]
    ELSE LET w == withContentSriSync(o, <<digests[i]>>, sz, plat)
         IN IF w.r.s = "ok"
              THEN [r |-> w.r, calls |-> calls \o w.calls]
              ELSE SyncLoop(o, digests, i + 1, IF lastErr = Null THEN w.r.v ELSE lastErr,
                            calls \o w.calls, sz, plat)

\* for (const meta of sri[sri.pickAlgorithm()]) { try { return ... } catch ... }
SyncLoop(o, digests, i, lastErr, calls, sz, plat) ==
  IF i > Len(digests)
    THEN [r |-> IF lastErr # Null THEN Fail(lastErr) ELSE Ok(Undefined), calls |-> calls]
    ELSE LET w == withContentSriSync(o, <<digests[i]>>, sz, plat)
         IN IF w.r.s = "ok"
              THEN [r |-> w.r, calls |-> calls \o w.calls]
              ELSE SyncLoop(o, digests, i + 1, w.r.v, calls \o w.calls, sz, plat)

withContentSriSync(o, sri, sz, plat) ==
  LET algo == pickAlgorithm(sri)
      digests == DigestsOf(sri, algo)
  IN IF algo = "" THEN [r |-> Fail(ParseError(sri)), calls |-> <<>>]
     ELSE IF Len(digests) <= 1
       THEN [r |-> Access(o, contentPath(digests[1]), digests[1], sz, plat),
             calls |-> <<contentPath(digests[1])>>]
     ELSE SyncLoop(o, digests, 1, Null, <<>>, sz, plat)

(***************************************************************************)
(* withContentSri: the non-blocking resolver.                              *)
(***************************************************************************)
\* Variant: the executor runs tryFn outside any try block.
withContentSriStart_NoTry(sri) ==
  LET algo == pickAlgorithm(sri)
      digests == DigestsOf(sri, algo)
  IN IF algo = ""
       THEN [threw |-> TRUE, promise |-> Fail(ParseError(sri)), cand |-> <<>>, calls |-> <<>>]
       ELSE [threw |-> FALSE, promise |-> Pending,
             cand |-> [k \in 1..Len(digests) |-> Pending],
             calls |-> [k \in 1..Len(digests) |-> contentPath(digests[k])]]

\* The synchronous part: the Promise executor runs tryFn, which parses,
\* picks the algorithm and calls fn on every candidate; a throw of tryFn
\* is caught and rejects the promise.
withContentSriStart(sri) ==
  LET algo == pickAlgorithm(sri)
      digests == DigestsOf(sri, algo)
  IN IF algo = ""
       THEN [threw |-> FALSE, promise |-> Fail(ParseError(sri)), cand |-> <<>>, calls |-> <<>>]
       ELSE [threw |-> FALSE, promise |-> Pending,
             cand |-> [k \in 1..Len(digests) |-> Pending],
             calls |-> [k \in 1..Len(digests) |-> contentPath(digests[k])]]

\* Variant: the candidate's own ENOENT error is kept.
CatchCandidate_KeepsRaw(sri, r) == IF r.s = "ok" THEN r ELSE Ok(r.v)

\* Variant: every failure of a candidate is reported as missing content.
CatchCandidate_AllMissing(sri, r) == IF r.s = "ok" THEN r ELSE Ok(NoMatchError(sri))

\* .catch((err) => ...) on a candidate of a multi-entry descriptor: the
\* candidate's promise always fulfils, with fn's value or with an Error.
CatchCandidate(sri, r) ==
  IF r.s = "ok" THEN r
  ELSE IF r.v.code = "ENOENT" THEN Ok(NoMatchError(sri))
  ELSE Ok(r.v)

\* results.find((r) => !(r instanceof Error)): index of the first match,
\* 0 when there is none
RECURSIVE FindNonError(_, _)
FindNonError(results, i) ==
  IF i > Len(results) THEN 0
  ELSE IF ~IsError(results[i]) THEN i
  ELSE FindNonError(results, i + 1)

\* results.find((r) => r instanceof Error)
RECURSIVE FindError(_, _)
FindError(results, i) ==
  IF i > Len(results) THEN 0
  ELSE IF IsError(results[i]) THEN i
  ELSE FindError(results, i + 1)

\* results.find((r) => r.code === 'ENOENT'): reading .code of undefined throws.
\* -1 stands for the TypeError.
RECURSIVE FindEnoent(_, _)
FindEnoent(results, i) ==
  IF i > Len(results) THEN 0
  ELSE IF results[i].t = "undefined" THEN -1
  ELSE IF results[i].code = "ENOENT" THEN i
  ELSE FindEnoent(results, i + 1)

\* Variant: only the first candidate's result is looked at.
Decide_TakesFirstResult(results) ==
  IF IsError(results[1]) THEN Fail(results[1]) ELSE Ok(results[1])

\* Variant: the final throw of the generic error is missing.
Decide_SwallowsGeneric(results) ==
  LET first == FindNonError(results, 1)
      enoent == FindEnoent(results, 1)
  IN IF first # 0 /\ Truthy(results[first]) THEN Ok(results[first])
     ELSE IF enoent = -1 THEN Fail(TypeError)
     ELSE IF enoent # 0 THEN Fail(results[enoent])
     ELSE Ok(Undefined)

\* Variant: the generic error is looked for before the ENOENT one.
Decide_GenericFirst(results) ==
  LET first == FindNonError(results, 1)
      enoent == FindEnoent(results, 1)
      generic == FindError(results, 1)
  IN IF first # 0 /\ Truthy(results[first]) THEN Ok(results[first])
     ELSE IF generic # 0 /\ results[generic].code # "ENOENT" THEN Fail(results[generic])
     ELSE IF enoent = -1 THEN Fail(TypeError)
     ELSE IF enoent # 0 THEN Fail(results[enoent])
     ELSE Ok(Undefined)

\* Variant: the last Error of the results is the one thrown.
Decide_ThrowsLastError(results) ==
  LET first == FindNonError(results, 1)
      enoent == FindEnoent(results, 1)
      errors == {k \in 1..Len(results) : IsError(results[k])}
  IN IF first # 0 /\ Truthy(results[first]) THEN Ok(results[first])
     ELSE IF enoent = -1 THEN Fail(TypeError)
     ELSE IF enoent # 0 THEN Fail(results[enoent])
     ELSE IF errors # {} THEN Fail(results[CHOOSE k \in errors : \A j \in errors : j <= k])
     ELSE Ok(Undefined)

\* .then((results) => { ... }) after Promise.all
Decide(results) ==
  LET first == FindNonError(results, 1)
      enoent == FindEnoent(results, 1)
      generic == FindError(results, 1)
  IN IF first # 0 /\ Truthy(results[first]) THEN Ok(results[first])
     ELSE IF enoent = -1 THEN Fail(TypeError)
     ELSE IF enoent # 0 THEN Fail(results[enoent])
     ELSE IF generic # 0 THEN Fail(results[generic])
     ELSE Ok(Undefined)

\* The settlement of withContentSri's promise once every candidate settled.
Settlement(c) ==
  IF Len(c) <= 1 THEN c[1]
  ELSE Decide([k \in 1..Len(c) |-> c[k].v])

(***************************************************************************)
(* State                                                                   *)
(***************************************************************************)
NoStream ==
  [created |-> FALSE, returned |-> FALSE, data |-> <<>>, ended |-> FALSE, error |-> Null]

\* The stores a call can find: anything under the sha512 paths; the copy kept
\* under the weaker algorithm is absent or intact.
Stores ==
  {f \in [Paths -> FileStates] :
     \A e \in Entries :
       e.algorithm # "sha512" =>
         \/ f[contentPath(e)] = Missing
         \/ f[contentPath(e)].k = "file" /\ checkData(f[contentPath(e)].data, e)}

Init ==
  /\ fs \in Stores
  /\ platform = ""
  /\ dest = Missing
  /\ pc = "idle"
  /\ op = ""
  /\ integrity = <<>>
  /\ size = NoSize
  /\ invoked = <<>>
  /\ cand = <<>>
  /\ promise = Pending
  /\ pipeline = Pending
  /\ result = Pending
  /\ stream = NoStream

\* The entries the current call resolves, in candidate order.
Candidates ==
  IF pickAlgorithm(integrity) = "" THEN <<>>
  ELSE DigestsOf(integrity, pickAlgorithm(integrity))

Enter(o, sri, sz) ==
  /\ pc = "idle"
  /\ op' = o
  /\ integrity' = sri
  /\ size' = sz

(***************************************************************************)
(* Blocking operations: each runs to completion in one step.               *)
(***************************************************************************)
\* Variant: readSync that removes the content file it found corrupt.
ReadSync_RemovesCorrupt ==
  \E sri \in Descriptors, sz \in SizeOpts :
    LET w == withContentSriSync("readSync", sri, sz, platform)
    IN /\ Enter("readSync", sri, sz)
       /\ pc' = "done"
       /\ result' = w.r
       /\ invoked' = w.calls
       /\ fs' = IF w.r.s = "fail" /\ w.r.v.code = "EINTEGRITY"
                  THEN [fs EXCEPT ![w.calls[Len(w.calls)]] = Missing]
                  ELSE fs
       /\ UNCHANGED <<dest, platform, cand, promise, pipeline, stream>>

\* readSync(cache, integrity, opts)
ReadSync ==
  \E sri \in Descriptors, sz \in SizeOpts :
    LET w == withContentSriSync("readSync", sri, sz, platform)
    IN /\ Enter("readSync", sri, sz)
       /\ pc' = "done"
       /\ result' = w.r
       /\ invoked' = w.calls
       /\ UNCHANGED <<fs, dest, platform, cand, promise, pipeline, stream>>

\* copySync(cache, integrity, dest)
CopySync ==
  \E sri \in Descriptors :
    LET w == withContentSriSync("copySync", sri, NoSize, platform)
    IN /\ Enter("copySync", sri, NoSize)
       /\ pc' = "done"
       /\ result' = w.r
       /\ invoked' = w.calls
       /\ dest' = IF w.r.s = "ok" THEN fs[w.calls[Len(w.calls)]] ELSE dest
       /\ UNCHANGED <<fs, platform, cand, promise, pipeline, stream>>

\* Variant: hasContentSync without the test of its integrity argument.
HasContentSync_NoGuard ==
  \E sri \in Descriptors \cup {NoIntegrity}, plat \in Platforms :
    LET w == withContentSriSync("hasContentSync", sri, NoSize, plat)
    IN /\ Enter("hasContentSync", sri, NoSize)
       /\ platform' = plat
       /\ pc' = "done"
       /\ result' = w.r
       /\ invoked' = w.calls
       /\ UNCHANGED <<fs, dest, cand, promise, pipeline, stream>>

\* hasContentSync(cache, integrity)
HasContentSync ==
  \E sri \in Descriptors \cup {NoIntegrity}, plat \in Platforms :
    LET w == IF sri = NoIntegrity
               THEN [r |-> Ok(False), calls |-> <<>>]
               ELSE withContentSriSync("hasContentSync", sri, NoSize, plat)
    IN /\ Enter("hasContentSync", sri, NoSize)
       /\ platform' = plat
       /\ pc' = "done"
       /\ result' = w.r
       /\ invoked' = w.calls
       /\ UNCHANGED <<fs, dest, cand, promise, pipeline, stream>>

(***************************************************************************)
(* Non-blocking operations.                                                *)
(***************************************************************************)
\* read(cache, integrity, opts), up to the return of the promise
Read ==
  \E sri \in Descriptors, sz \in SizeOpts :
    LET w == withContentSriStart(sri)
    IN /\ Enter("read", sri, sz)
       /\ invoked' = w.calls
       /\ cand' = w.cand
       /\ promise' = w.promise
       /\ result' = IF w.threw THEN [s |-> "threw", v |-> w.promise.v] ELSE w.promise
       /\ pc' = IF w.promise.s = "pending" THEN "pending" ELSE "done"
       /\ UNCHANGED <<fs, dest, platform, pipeline, stream>>

\* copy(cache, integrity, dest)
Copy ==
  \E sri \in Descriptors :
    LET w == withContentSriStart(sri)
    IN /\ Enter("copy", sri, NoSize)
       /\ invoked' = w.calls
       /\ cand' = w.cand
       /\ promise' = w.promise
       /\ result' = IF w.threw THEN [s |-> "threw", v |-> w.promise.v] ELSE w.promise
       /\ pc' = IF w.promise.s = "pending" THEN "pending" ELSE "done"
       /\ UNCHANGED <<fs, dest, platform, pipeline, stream>>

\* hasContent(cache, integrity), up to the return of the promise
HasContent ==
  \E sri \in Descriptors \cup {NoIntegrity}, plat \in Platforms :
    /\ Enter("hasContent", sri, NoSize)
    /\ platform' = plat
    /\ IF sri = NoIntegrity
         THEN /\ result' = Ok(False)
              /\ pc' = "done"
              /\ UNCHANGED <<invoked, cand, promise, pipeline>>
         ELSE LET w == withContentSriStart(sri)
              IN /\ invoked' = w.calls
                 /\ cand' = w.cand
                 /\ promise' = w.promise
                 /\ result' = IF w.threw THEN [s |-> "threw", v |-> w.promise.v] ELSE Pending
                 /\ pc' = IF w.threw THEN "done"
                          ELSE IF w.promise.s = "pending" THEN "pending" ELSE "settled"
    /\ UNCHANGED <<fs, dest, pipeline, stream>>

\* readStream(cache, integrity, opts): the stream is made, withContentSri
\* is called and the handlers are attached
ReadStream ==
  \E sri \in Descriptors, sz \in SizeOpts :
    LET w == withContentSriStart(sri)
    IN /\ Enter("readStream", sri, sz)
       /\ stream' = [stream EXCEPT !.created = TRUE]
       /\ invoked' = w.calls
       /\ cand' = w.cand
       /\ promise' = w.promise
       /\ result' = IF w.threw THEN [s |-> "threw", v |-> w.promise.v] ELSE Pending
       /\ pc' = IF w.threw THEN "done" ELSE "called"
       /\ UNCHANGED <<fs, dest, platform, pipeline>>

\* return stream
ReadStreamReturn ==
  /\ pc = "called"
  /\ stream' = [stream EXCEPT !.returned = TRUE]
  /\ result' = Ok([Blank EXCEPT !.t = "stream"])
  /\ pc' = IF promise.s = "pending" THEN "pending" ELSE "settled"
  /\ UNCHANGED <<fs, dest, platform, op, integrity, size, invoked, cand, promise, pipeline>>

\* The I/O of candidate k completes and its promise settles.
Settle(k) ==
  /\ pc = "pending"
  /\ k \in 1..Len(cand)
  /\ cand[k] = Pending
  /\ LET r == Access(op, invoked[k], Candidates[k], size, platform)
     IN /\ cand' = [cand EXCEPT ![k] = IF Len(cand) > 1 THEN CatchCandidate(integrity, r) ELSE r]
        /\ dest' = IF op = "copy" /\ r.s = "ok" THEN fs[invoked[k]] ELSE dest
  /\ UNCHANGED <<fs, platform, pc, op, integrity, size, invoked, promise, pipeline, result, stream>>

\* Variant: the promise settles with the first candidate to settle (a race).
Join_Race ==
  /\ pc = "pending"
  /\ \E k \in 1..Len(cand) :
       /\ cand[k] # Pending
       /\ promise' = IF IsError(cand[k].v) THEN Fail(cand[k].v) ELSE cand[k]
  /\ IF op \in {"read", "copy"}
       THEN /\ result' = promise'
            /\ pc' = "done"
       ELSE /\ pc' = "settled"
            /\ UNCHANGED result
  /\ UNCHANGED <<fs, dest, platform, op, integrity, size, invoked, cand, pipeline, stream>>

\* Variant: the promise settles only when some candidate brought a value.
Join_OnlyOnSuccess ==
  /\ pc = "pending"
  /\ \A k \in 1..Len(cand) : cand[k] # Pending
  /\ \E k \in 1..Len(cand) : ~IsError(cand[k].v) /\ cand[k].s = "ok"
  /\ promise' = Settlement(cand)
  /\ IF op \in {"read", "copy"}
       THEN /\ result' = promise'
            /\ pc' = "done"
       ELSE /\ pc' = "settled"
            /\ UNCHANGED result
  /\ UNCHANGED <<fs, dest, platform, op, integrity, size, invoked, cand, pipeline, stream>>

\* Every candidate has settled: withContentSri's promise settles.
Join ==
  /\ pc = "pending"
  /\ \A k \in 1..Len(cand) : cand[k] # Pending
  /\ promise' = Settlement(cand)
  /\ IF op \in {"read", "copy"}
       THEN /\ result' = promise'
            /\ pc' = "done"
       ELSE /\ pc' = "settled"
            /\ UNCHANGED result
  /\ UNCHANGED <<fs, dest, platform, op, integrity, size, invoked, cand, pipeline, stream>>

\* Variant: EPERM is taken for absence on every platform.
hasContentCatch_AnyPlatform(err, plat) ==
  IF err.code \in {"ENOENT", "EPERM"} THEN Ok(False) ELSE Ok(Undefined)

\* hasContent's .catch((err) => ...)
hasContentCatch(err, plat) ==
  IF err.code = "ENOENT" THEN Ok(False)
  ELSE IF err.code = "EPERM"
    THEN (IF plat # "win32" THEN Fail(err) ELSE Ok(False))
  ELSE Ok(Undefined)

HasContentSettle ==
  /\ pc = "settled"
  /\ op = "hasContent"
  /\ result' = IF promise.s = "ok" THEN promise ELSE hasContentCatch(promise.v, platform)
  /\ pc' = "done"
  /\ UNCHANGED <<fs, dest, platform, op, integrity, size, invoked, cand, promise, pipeline, stream>>

\* What pipe(createReadStream(cpath), integrityStream({integrity, size}), stream)
\* ends with: the transform checks the size, then the digest.
pipe(cpath, sri, sz) ==
  LET f == fs[cpath]
  IN CASE f.k = "missing" -> Fail(FsError("ENOENT", cpath))
       [] f.k = "fault" -> Fail(FsError(f.code, cpath))
       [] sz # NoSize /\ sz # Len(f.data) -> Fail(sizeError(sz, Len(f.data)))
       [] ~checkData(f.data, sri) ->
            Fail([Blank EXCEPT !.t = "error", !.code = "EINTEGRITY",
                               !.msg = "integrity checksum failed", !.sri = sri])
       [] OTHER -> Ok(Undefined)

\* readStream's .then(({ cpath, sri, stat }) => pipe(...)), to the end of
\* the pipeline: the bytes read reach the stream before the verdict.
ReadStreamPipe ==
  /\ pc = "settled"
  /\ op = "readStream"
  /\ promise.s = "ok"
  /\ LET r == pipe(promise.v.path, promise.v.sri, size)
     IN /\ pipeline' = r
        /\ stream' = [stream EXCEPT !.data = fs[promise.v.path].data, !.ended = (r.s = "ok")]
        /\ pc' = IF r.s = "ok" THEN "done" ELSE "piped"
  /\ UNCHANGED <<fs, dest, platform, op, integrity, size, invoked, cand, promise, result>>

\* readStream's .catch((err) => { stream.emit('error', err) })
ReadStreamCatch ==
  /\ op = "readStream"
  /\ \/ pc = "settled" /\ promise.s = "fail" /\ stream' = [stream EXCEPT !.error = promise.v]
     \/ pc = "piped" /\ stream' = [stream EXCEPT !.error = pipeline.v]
  /\ pc' = "done"
  /\ UNCHANGED <<fs, dest, platform, op, integrity, size, invoked, cand, promise, pipeline, result>>

Next ==
  \/ ReadSync
  \/ CopySync
  \/ HasContentSync
  \/ Read
  \/ Copy
  \/ HasContent
  \/ ReadStream
  \/ ReadStreamReturn
  \/ \E k \in 1..MaxEntries : Settle(k)
  \/ Join
  \/ HasContentSettle
  \/ ReadStreamPipe
  \/ ReadStreamCatch

Spec == Init /\ [][Next]_vars

\* The event loop: synchronous code runs to its return, the I/O a candidate
\* started completes, and a reaction whose promises have all settled runs.
FairSpec ==
  /\ Spec
  /\ WF_vars(ReadStreamReturn)
  /\ \A k \in 1..MaxEntries : WF_vars(Settle(k))
  /\ WF_vars(Join)

(***************************************************************************)
(* Properties                                                              *)
(***************************************************************************)
\* Candidate k of the current call: its path, the file there, and what the
\* operation's access function gives on it.
PathOf(k) == contentPath(Candidates[k])
FileAt(k) == fs[PathOf(k)]
RawOutcome(k) == Access(op, PathOf(k), Candidates[k], size, platform)
CandIdx == 1..Len(Candidates)
\* The call resolves several entries of the selected algorithm.
MultiEntry == Len(Candidates) > 1

\* Candidate k is the one entry whose file exists, and its bytes verify.
OnlyValid(k) ==
  /\ FileAt(k).k = "file"
  /\ RawOutcome(k).s = "ok"
  /\ \A j \in CandIdx : Candidates[j] # Candidates[k] => FileAt(j).k # "file"

\* C1: read on a multi-entry descriptor in which exactly one entry's file
\* exists and verifies resolves with that entry's bytes, wherever the entry
\* stands in the descriptor, in whatever order the candidates' reads
\* complete, and whatever error the other candidates fail with.
C1_ReadResolvesWithTheValidEntry ==
  (op = "read" /\ pc = "done" /\ MultiEntry) =>
    \A k \in CandIdx : OnlyValid(k) => result = Ok(Buffer(FileAt(k).data))

C1_Witness ==
  /\ op = "read" /\ pc = "done" /\ Len(Candidates) = 2
  /\ Candidates[1] # Candidates[2]
  /\ OnlyValid(2)
  /\ FileAt(1) = Fault("EPERM")
  /\ result = Ok(Buffer(FileAt(2).data))

\* The candidates that gave a value, not an Error.
Succeeded == {k \in CandIdx : cand[k].s = "ok" /\ ~IsError(cand[k].v)}
FirstSucceeded == CHOOSE k \in Succeeded : \A j \in Succeeded : k <= j

\* C2: once every candidate of a multi-entry resolution has settled, if the
\* access function succeeded on some candidate then withContentSri's promise
\* fulfils with the value of the first such candidate in descriptor order,
\* whatever that value is (the valueless success of copy included).
C2_FirstSuccessWins ==
  (op \in AsyncOps /\ MultiEntry /\ promise # Pending /\ Succeeded # {}) =>
    promise = Ok(cand[FirstSucceeded].v)

\* C3: read on a descriptor with several entries, none of which has a file,
\* rejects with one error: code ENOENT, message "No matching content found
\* for <descriptor>" naming the whole descriptor, not a candidate's own
\* per-path ENOENT.
C3_AllMissingGivesOneAggregate ==
  (op = "read" /\ pc = "done" /\ MultiEntry /\ \A k \in CandIdx : FileAt(k) = Missing) =>
    /\ result = Fail(NoMatchError(integrity))
    /\ result.v.code = "ENOENT"
    /\ result.v.desc = integrity
    /\ \A k \in CandIdx : result.v # FsError("ENOENT", PathOf(k))

C3_Witness ==
  /\ op = "read" /\ pc = "done" /\ Len(Candidates) = 2
  /\ Candidates[1] # Candidates[2]
  /\ \A k \in CandIdx : FileAt(k) = Missing
  /\ result.s = "fail" /\ result.v.msg = "No matching content found for"

\* withContentSri rejected with the error it builds for missing content.
AggregateRejected == MultiEntry /\ op \in AsyncOps /\ promise = Fail(NoMatchError(integrity))

SizeAccepts(k) == size = NoSize \/ size = Len(FileAt(k).data)

\* C5: read and read.sync never return bytes that fail verification against
\* the entry of the candidate they were read from.  With a single-entry
\* descriptor and a stored file that passes the size option, they return
\* exactly the stored bytes when these match the digest, and fail with
\* EINTEGRITY, carrying the resolved entry as sri and the resolved content
\* path as path, when they do not.
C5_ReadReturnsOnlyVerifiedBytes ==
  (op \in {"read", "readSync"} /\ pc = "done") =>
    /\ result.s = "ok" =>
         \E k \in CandIdx :
           /\ FileAt(k).k = "file"
           /\ result.v = Buffer(FileAt(k).data)
           /\ checkData(FileAt(k).data, Candidates[k])
    /\ (Len(Candidates) = 1 /\ FileAt(1).k = "file" /\ SizeAccepts(1)) =>
         IF checkData(FileAt(1).data, Candidates[1])
           THEN result = Ok(Buffer(FileAt(1).data))
           ELSE /\ result = Fail(integrityError(Candidates[1], PathOf(1)))
                /\ result.v.code = "EINTEGRITY"
    /\ (Len(Candidates) = 1 /\ result.s = "fail" /\ result.v.code = "EINTEGRITY") =>
         result.v.sri = Candidates[1] /\ result.v.path = PathOf(1)

C5_Witness ==
  /\ op = "readSync" /\ pc = "done" /\ Len(Candidates) = 1
  /\ FileAt(1).k = "file" /\ SizeAccepts(1)
  /\ ~checkData(FileAt(1).data, Candidates[1])
  /\ result.s = "fail" /\ result.v.code = "EINTEGRITY"

\* Candidate k has a file whose length differs from the size supplied.
SizeDiffers(k) ==
  FileAt(k).k = "file" /\ size # NoSize /\ size # Len(FileAt(k).data)

\* C6: in read and read.sync a candidate whose file's length differs from a
\* supplied size fails with EBADSIZE, expected = the size supplied and
\* found = the actual length, also when the bytes fail the digest check
\* too (the size check runs first); without a size no EBADSIZE occurs.
C6_SizeCheckedFirst ==
  (op \in {"read", "readSync"} /\ pc \in {"pending", "done"}) =>
    /\ (pc = "done" /\ Len(Candidates) = 1 /\ SizeDiffers(1)) =>
         /\ result = Fail(sizeError(size, Len(FileAt(1).data)))
         /\ result.v.code = "EBADSIZE"
         /\ result.v.expected = size
         /\ result.v.found = Len(FileAt(1).data)
    /\ \A k \in 1..Len(cand) :
         (cand[k] # Pending /\ SizeDiffers(k)) =>
            cand[k].v = sizeError(size, Len(FileAt(k).data))
    /\ size = NoSize =>
         /\ result.v.code # "EBADSIZE"
         /\ \A k \in 1..Len(cand) : cand[k].v.code # "EBADSIZE"

C6_Witness ==
  /\ op = "read" /\ pc = "done" /\ Len(Candidates) = 1
  /\ SizeDiffers(1)
  /\ ~checkData(FileAt(1).data, Candidates[1])
  /\ result.s = "fail" /\ result.v.code = "EBADSIZE"

\* The access function was invoked on candidate k and raised EBADSIZE or
\* EINTEGRITY.
Raised(k) ==
  /\ k \in 1..Len(invoked)
  /\ RawOutcome(k).s = "fail"
  /\ RawOutcome(k).v.code \in {"EBADSIZE", "EINTEGRITY"}

\* C7 (as claimed): whenever a candidate's access function in read or
\* read.sync raises EBADSIZE or EINTEGRITY, the call fails.
C7_SizeAndIntegrityAlwaysFatal ==
  (op \in {"read", "readSync"} /\ pc = "done" /\ \E k \in CandIdx : Raised(k)) =>
    result.s = "fail"

\* C7 (amended): an EBADSIZE or EINTEGRITY raised on a candidate is fatal
\* for the call when the descriptor has a single entry, where the call
\* fails with that very error, and when no candidate of a multi-entry
\* descriptor succeeds; when another candidate of a multi-entry descriptor
\* succeeds, the call returns bytes.
C7_FatalUnlessAnotherCandidateSucceeds ==
  (op \in {"read", "readSync"} /\ pc = "done" /\ \E k \in CandIdx : Raised(k)) =>
    /\ ~MultiEntry => result = RawOutcome(1)
    /\ IF \E j \in CandIdx : RawOutcome(j).s = "ok"
         THEN MultiEntry /\ result.s = "ok" /\ result.v.t = "buffer"
         ELSE result.s = "fail"

C7_Witness ==
  /\ op = "read" /\ pc = "done" /\ MultiEntry
  /\ \A k \in CandIdx : Raised(k)
  /\ result.s = "fail" /\ result.v.code \in {"EBADSIZE", "EINTEGRITY"}

C9_HasContentVerdicts ==
  (op \in {"hasContent", "hasContentSync"} /\ pc = "done" /\ Len(Candidates) = 1) =>
    CASE FileAt(1).k = "file" ->
           /\ result = Ok(StatInfo(Len(FileAt(1).data), Candidates[1]))
           /\ Truthy(result.v)
      [] FileAt(1) = Missing -> result = Ok(False)
      [] FileAt(1) = Fault("EPERM") ->
           IF platform = "win32" THEN result = Ok(False)
           ELSE result = Fail(FsError("EPERM", PathOf(1)))
      [] OTHER -> TRUE

C9_Witness ==
  /\ op = "hasContent" /\ pc = "done" /\ Len(Candidates) = 1
  /\ FileAt(1) = Fault("EPERM")
  /\ platform = "linux"
  /\ result = Fail(FsError("EPERM", PathOf(1)))

\* C10: in hasContent and hasContent.sync a failure whose code is neither
\* ENOENT nor EPERM (an EIO of the stat, the codeless error of a malformed
\* descriptor) reaches the caller unchanged, as an error.
C10_OtherFailuresPropagate ==
  (op \in {"hasContent", "hasContentSync"} /\ pc = "done" /\ integrity # NoIntegrity) =>
    /\ pickAlgorithm(integrity) = "" => result = Fail(ParseError(integrity))
    /\ (Len(Candidates) = 1 /\ FileAt(1) = Fault("EIO")) =>
         result = Fail(FsError("EIO", PathOf(1)))

\* C11: hasContent and hasContent.sync called without a descriptor answer
\* false at once: the resolver is not started (no descriptor is parsed, no
\* candidate exists, no promise of the resolver settles), no path is mapped
\* and the access function, hence the filesystem, is not touched.
C11_NoDescriptorNoWork ==
  (op \in {"hasContent", "hasContentSync"} /\ integrity = NoIntegrity) =>
    /\ pc = "done"
    /\ result = Ok(False)
    /\ invoked = <<>>
    /\ cand = <<>>
    /\ promise = Pending

C11_Witness ==
  /\ op = "hasContentSync" /\ integrity = NoIntegrity
  /\ pc = "done" /\ result = Ok(False) /\ invoked = <<>>

\* The candidates the access function gives a value on.
RawSuccesses == {k \in CandIdx : RawOutcome(k).s = "ok"}
FirstRawSuccess == CHOOSE k \in RawSuccesses : \A j \in RawSuccesses : k <= j

\* C12: withContentSriSync on a multi-entry descriptor invokes the access
\* function on the candidates in descriptor order, returns what it gives on
\* the first candidate it does not throw on and invokes it on no later
\* candidate; when it throws on every candidate, the last candidate's error
\* is thrown as it is (no aggregate ENOENT).
C12_SyncTriesInOrder ==
  (op \in SyncOps /\ pc = "done" /\ MultiEntry) =>
    /\ Len(invoked) \in CandIdx
    /\ \A k \in 1..Len(invoked) : invoked[k] = PathOf(k)
    /\ \A k \in 1..(Len(invoked) - 1) : RawOutcome(k).s = "fail"
    /\ IF RawSuccesses # {}
         THEN /\ Len(invoked) = FirstRawSuccess
              /\ result = RawOutcome(FirstRawSuccess)
         ELSE /\ Len(invoked) = Len(Candidates)
              /\ result = RawOutcome(Len(Candidates))
              /\ result.s = "fail"
              /\ result.v # NoMatchError(integrity)

C12_Witness ==
  /\ op = "readSync" /\ pc = "done" /\ Len(Candidates) = 2
  /\ RawSuccesses = {}
  /\ RawOutcome(1).v.code = "ENOENT"
  /\ RawOutcome(2).v.code = "EPERM"
  /\ result = Fail(FsError("EPERM", PathOf(2)))

\* C13: for every store, single-entry descriptor and size option, read and
\* read.sync end the same way: the same bytes, or an error with the same
\* code and the same fields.  Each form's result is compared with what the
\* other form's resolver and access function give on the same arguments.
C13_ReadAndReadSyncAgree ==
  (pc = "done" /\ Len(Candidates) = 1) =>
    /\ op = "read" =>
         result = withContentSriSync("readSync", integrity, size, platform).r
    /\ op = "readSync" =>
         result = Settlement(<<Access("read", PathOf(1), Candidates[1], size, platform)>>)

C13_Witness ==
  /\ op = "read" /\ pc = "done" /\ Len(Candidates) = 1
  /\ SizeDiffers(1)
  /\ result = withContentSriSync("readSync", integrity, size, platform).r
  /\ result = Fail(sizeError(size, Len(FileAt(1).data)))

\* What candidate k's promise holds once settled, from the store alone.
Caught(k) == CatchCandidate(integrity, RawOutcome(k))

\* C14: the non-blocking multi-entry resolution is a join: the access
\* function is started on every candidate of the selected algorithm, the
\* promise stays pending until every candidate has settled (so a candidate
\* that fails early cannot reject it while another is pending), and what it
\* settles with is fixed by the candidates' outcomes, not by the order in
\* which they complete.
C14_JoinNotRace ==
  (op \in AsyncOps /\ MultiEntry) =>
    /\ Len(invoked) = Len(Candidates) /\ Len(cand) = Len(Candidates)
    /\ \A k \in CandIdx : invoked[k] = PathOf(k)
    /\ (\E k \in CandIdx : cand[k] = Pending) =>
         /\ promise = Pending
         /\ pc \in {"called", "pending"}
         /\ result.s # "fail"
    /\ \A k \in CandIdx : cand[k] # Pending => cand[k] = Caught(k)
    /\ promise # Pending =>
         promise = Decide([k \in CandIdx |-> Caught(k).v])

C14_Witness ==
  /\ op = "read" /\ pc = "pending" /\ Len(Candidates) = 2
  /\ cand[1] = Ok(FsError("EPERM", PathOf(1)))
  /\ cand[2] = Pending
  /\ RawOutcome(2).s = "ok"
  /\ promise = Pending

\* Every candidate's access function failed.
AllFailed == \A k \in CandIdx : RawOutcome(k).s = "fail"
SomeMissing == \E k \in CandIdx : RawOutcome(k).v.code = "ENOENT"

\* C15: in the non-blocking multi-entry resolution, when every candidate
\* failed and at least one failure is ENOENT, the promise rejects with the
\* aggregate ENOENT error, also when an earlier candidate failed with
\* another error.
C15_EnoentPreferred ==
  (op \in AsyncOps /\ MultiEntry /\ promise # Pending /\ AllFailed /\ SomeMissing) =>
    promise = Fail(NoMatchError(integrity))

C15_Witness ==
  /\ op = "copy" /\ pc = "done" /\ Len(Candidates) = 2
  /\ FileAt(1) = Fault("EIO")
  /\ FileAt(2) = Missing
  /\ result = Fail(NoMatchError(integrity))

\* C16: in the non-blocking multi-entry resolution, when every candidate
\* failed and no failure is ENOENT, the promise rejects with the error of
\* the first candidate in descriptor order, unchanged, whatever the order
\* in which the candidates failed.
C16_FirstGenericError ==
  (op \in AsyncOps /\ MultiEntry /\ promise # Pending /\ AllFailed /\ ~SomeMissing) =>
    promise = Fail(RawOutcome(1).v)

C16_Witness ==
  /\ op = "read" /\ pc = "done" /\ Len(Candidates) = 2
  /\ FileAt(1) = Fault("EPERM")
  /\ RawOutcome(2).s = "fail" /\ RawOutcome(2).v.code = "EINTEGRITY"
  /\ result = Fail(FsError("EPERM", PathOf(1)))

\* The resolver of the current call failed: withContentSri's promise
\* rejected, or withContentSriSync threw.
ResolverFailed ==
  IF op \in AsyncOps THEN promise.s = "fail" ELSE result.s = "fail"

\* C17: a resolution picks one algorithm and resolves only its entries: the
\* access function is invoked on paths of entries of that algorithm alone,
\* and when it fails on all of them the resolution fails, also when an
\* entry of another algorithm of the same descriptor has a present, valid
\* file.
C17_OneAlgorithmPerCall ==
  (pc # "idle" /\ integrity # NoIntegrity) =>
    /\ \A k \in 1..Len(invoked) :
         /\ invoked[k][1] = pickAlgorithm(integrity)
         /\ \E j \in 1..Len(integrity) :
              /\ integrity[j].algorithm = pickAlgorithm(integrity)
              /\ invoked[k] = contentPath(integrity[j])
    /\ (pc = "done" /\ Candidates # <<>> /\ AllFailed) => ResolverFailed

C17_Witness ==
  /\ op = "read" /\ pc = "done"
  /\ Len(integrity) = 2 /\ Len(Candidates) = 1
  /\ \E j \in 1..2 :
       /\ integrity[j].algorithm = "sha1"
       /\ fs[contentPath(integrity[j])].k = "file"
       /\ checkData(fs[contentPath(integrity[j])].data, integrity[j])
  /\ AllFailed
  /\ ResolverFailed /\ result.s = "fail"
\* What candidate k's attempt settles with, from its own path and digest
\* entry and the store alone.
OwnOutcome(k) == IF MultiEntry THEN Caught(k) ELSE RawOutcome(k)

\* Every settled attempt of the current resolution holds its own outcome.
AttemptsIndependent ==
  \A k \in 1..Len(cand) : cand[k] # Pending => cand[k] = OwnOutcome(k)

ReportsPresent == result.s = "ok" /\ Truthy(result.v)
SomeCandidateExists == \E k \in CandIdx : FileAt(k).k = "file"

\* C19: on the same store and descriptor hasContent and hasContentSync give
\* the same presence verdict, the one fixed by the candidates' files: the
\* result is truthy exactly when the file of some candidate of the selected
\* algorithm exists; so with a first candidate whose file is missing and a
\* later candidate whose file exists, either form reports the existing
\* candidate.
C19_HasContentFormsAgree ==
  (op \in {"hasContent", "hasContentSync"} /\ pc = "done" /\ Candidates # <<>>) =>
    /\ ReportsPresent <=> SomeCandidateExists
    /\ (MultiEntry /\ FileAt(1) = Missing /\ SomeCandidateExists) =>
         /\ ReportsPresent
         /\ \E k \in CandIdx : FileAt(k).k = "file" /\ result.v.sri = Candidates[k]
\* withContentSri has been called by the current operation.
ResolverCalled == pc # "idle" /\ op \in AsyncOps /\ integrity # NoIntegrity

\* C20: when the I/O of every candidate completes, each call of
\* withContentSri settles its promise, resolved or rejected, and a settled
\* promise never changes again; the call never throws to its caller, a
\* descriptor with no algorithm to pick included, and a multi-entry
\* resolution settles whatever the order in which its candidates complete.
C20_ResolverSettlesOnce ==
  /\ ResolverCalled ~> (promise.s \in {"ok", "fail"})
  /\ [][promise # Pending => promise' = promise]_vars
  /\ [](ResolverCalled => result.s # "threw")
  /\ [](ResolverCalled /\ pickAlgorithm(integrity) = "" =>
          promise = Fail(ParseError(integrity)))

C20_Witness ==
  /\ ResolverCalled
  /\ MultiEntry
  /\ AllFailed
  /\ promise.s = "fail"
  /\ \A k \in 1..Len(cand) : cand[k] # Pending
====
